---- MODULE Spec2Model ----
(***************************************************************************)
(* Model of the search / page-extraction request handlers of the           *)
(* repository: src/api/search.js and the three other revisions of the same *)
(* route (src/unnamed/part_000, part_001, part_002).  One request is       *)
(* followed from its arrival to its response; the network (search          *)
(* provider, fetched pages) is the environment and answers                 *)
(* nondeterministically.                                                   *)
(***************************************************************************)
EXTENDS Integers, Sequences, FiniteSets, TLC

(***************************************************************************)
(* Bounds of the model.                                                    *)
(***************************************************************************)
\* longest provider result list
MaxResults == 3
\* how far an article text may exceed the truncation budget
MaxExtra == 1
\* longest run of blanks around an article text
MaxPad == 1

(***************************************************************************)
(* Short strings (queries, URLs) are sequences of one-character strings,   *)
(* so that prefix and substring tests compute what the JavaScript string   *)
(* methods compute.                                                        *)
(***************************************************************************)
UpperCase == <<"A", "B", "C", "D", "E", "F", "G", "H", "I", "J", "K", "L", "M",
               "N", "O", "P", "Q", "R", "S", "T", "U", "V", "W", "X", "Y", "Z">>
LowerCase == <<"a", "b", "c", "d", "e", "f", "g", "h", "i", "j", "k", "l", "m",
               "n", "o", "p", "q", "r", "s", "t", "u", "v", "w", "x", "y", "z">>

\* the lower-case letter of each upper-case letter
LowerOf ==
  [c \in {UpperCase[i] : i \in 1..Len(UpperCase)} |->
     LowerCase[CHOOSE i \in 1..Len(UpperCase) : UpperCase[i] = c]]

toLowerCaseChar(c) == IF c \in DOMAIN LowerOf THEN LowerOf[c] ELSE c

\* a comparison that forgets to fold the case
toLowerCaseForgotten(s) == s

toLowerCase(s) == [i \in 1..Len(s) |-> toLowerCaseChar(s[i])]

startsWith(s, p) == Len(s) >= Len(p) /\ SubSeq(s, 1, Len(p)) = p

includes(s, sub) ==
  \E i \in 0..(Len(s) - Len(sub)) : SubSeq(s, i + 1, i + Len(sub)) = sub

\* s.substring(from): the characters from the 0-based index from to the end
substringFrom(s, from) == SubSeq(s, from + 1, Len(s))

(***************************************************************************)
(* Page texts are long (the budget is 4000 characters), so a text is kept  *)
(* run-length encoded: a sequence of runs [ch, n], n >= 1, adjacent runs   *)
(* of different characters.  The operators below compute on the encoded    *)
(* form exactly what the JavaScript string methods compute on the string.  *)
(***************************************************************************)
EmptyText == <<>>

Run(c, k) == IF k > 0 THEN <<[ch |-> c, n |-> k]>> ELSE <<>>

RECURSIVE length(_)
length(t) == IF t = <<>> THEN 0 ELSE Head(t).n + length(Tail(t))

\* s + t
concat(s, t) ==
  IF s = <<>> THEN t
  ELSE IF t = <<>> THEN s
  ELSE IF s[Len(s)].ch = t[1].ch
    THEN SubSeq(s, 1, Len(s) - 1)
           \o <<[ch |-> t[1].ch, n |-> s[Len(s)].n + t[1].n]>>
           \o Tail(t)
    ELSE s \o t

\* t.substring(0, k): the first k characters of t (all of t if it is shorter)
RECURSIVE substring0(_, _)
substring0(t, k) ==
  IF t = <<>> \/ k <= 0 THEN <<>>
  ELSE IF Head(t).n >= k THEN <<[ch |-> Head(t).ch, n |-> k]>>
  ELSE <<Head(t)>> \o substring0(Tail(t), k - Head(t).n)

WhiteSpace == {" ", "\n", "\t"}

RECURSIVE trimStart(_)
trimStart(t) ==
  IF t = <<>> THEN <<>>
  ELSE IF Head(t).ch \in WhiteSpace THEN trimStart(Tail(t))
  ELSE t

RECURSIVE trimEnd(_)
trimEnd(t) ==
  IF t = <<>> THEN <<>>
  ELSE IF t[Len(t)].ch \in WhiteSpace THEN trimEnd(SubSeq(t, 1, Len(t) - 1))
  ELSE t

\* t.trim()
trim(t) == trimEnd(trimStart(t))

Ellipsis == Run(".", 3)

(***************************************************************************)
(* JavaScript null / optional values: an optional value is a sequence of   *)
(* length 0 (null) or 1 (the value).  A field that a record does not have  *)
(* at all (undefined) is simply not in the record's DOMAIN.                *)
(***************************************************************************)
Null == <<>>
Some(v) == <<v>>

\* { ...r, f1: v1, ... }: r with the fields of f added or overwritten
Spread(r, f) == f @@ r

(***************************************************************************)
(* The four revisions of the route handler.                                *)
(***************************************************************************)
VSearch == "src/api/search.js"
VPart000 == "src/unnamed/part_000"
VPart001 == "src/unnamed/part_001"
VPart002 == "src/unnamed/part_002"
Variants == {VSearch, VPart000, VPart001, VPart002}

\* the revisions that contain the page extractor
Extracting == {VSearch, VPart000, VPart002}

(***************************************************************************)
(* fetchAndExtractReadableContent                                          *)
(***************************************************************************)
\* extractedText.substring(0, 4000)
ContentLimit == 4000

StatusSuccess == "Content extracted successfully."

StatusParseEmpty ==
  "Readable content not found or page structure not suitable for extraction."

StatusFetchFailed(v, code) ==
  IF v = VSearch
    THEN "Failed to fetch content (Status: " \o ToString(code) \o ")."
    ELSE "Failed to fetch content (Status: " \o ToString(code)
           \o "). It might be protected, private, or a login page."

StatusError(v, name) ==
  IF v = VSearch
    THEN "Error during content extraction: " \o name \o "."
    ELSE "Error during content extraction: " \o name
           \o ". The site might be blocking automated access."

\* let pageTitle = "N/A"
NoTitle == "N/A"

\* a || b on strings: the empty string is falsy
OrElse(a, b) == IF a # "" THEN a ELSE b

\* the object an exit of the extractor returns: search.js returns
\* { status, content }, the later revisions { status, content, title }
Outcome(v, st, c, title) ==
  IF v = VSearch
    THEN [status |-> st, content |-> c]
    ELSE [status |-> st, content |-> c, title |-> title]

\* response.ok of node-fetch: a 2xx status
ok(response) == response.status >= 200 /\ response.status < 300

\* a catch block that reports an empty text instead of null
extractCatchEmptyText(v, name, pageTitle) ==
  Outcome(v, StatusError(v, name), Some(EmptyText), pageTitle)

\* a catch block that throws the error again
extractCatchRethrow(v, name, pageTitle) == [thrown |-> name]

\* catch (error): whatever was thrown becomes an outcome
extractCatch(v, name, pageTitle) ==
  Outcome(v, StatusError(v, name), Null, pageTitle)

\* a non-success response raised as an exception
extractNotOkThrows(v, response) == [thrown |-> "HTTPError"]

\* if (!response.ok) return ...
extractNotOk(v, response) ==
  Outcome(v, StatusFetchFailed(v, response.status), Null, NoTitle)

\* a truncation that puts the ellipsis on a text of exactly the budget
truncatedContentOffByOne(extractedText) ==
  concat(substring0(extractedText, ContentLimit),
         IF length(extractedText) >= ContentLimit THEN Ellipsis ELSE EmptyText)

\* extractedText.substring(0, 4000) + (extractedText.length > 4000 ? "..." : "")
truncatedContent(extractedText) ==
  concat(substring0(extractedText, ContentLimit),
         IF length(extractedText) > ContentLimit THEN Ellipsis ELSE EmptyText)

\* the synchronous part after "const html = await response.text()": build the
\* document, read its title, run Readability, classify.  A page is
\*   [dom, docTitle, readability, articleTitle, textContent]
\* where dom and readability say whether JSDOM / Readability throw on it.
extractFromHtml(v, page) ==
  IF page.dom = "throws" THEN extractCatch(v, page.error, NoTitle)
  ELSE LET pageTitle == OrElse(page.docTitle, NoTitle) IN
    IF page.readability = "throws" THEN extractCatch(v, page.error, pageTitle)
    ELSE IF page.readability = "article" /\ page.textContent # EmptyText
      THEN Outcome(v, StatusSuccess,
                   Some(truncatedContent(trim(page.textContent))),
                   OrElse(page.articleTitle, pageTitle))
      ELSE Outcome(v, StatusParseEmpty, Null, pageTitle)

(***************************************************************************)
(* The environment: what the fetched pages and the network may answer.     *)
(***************************************************************************)
\* an article text of len characters ("a", then "b"s, then "c") between
\* runs of l and r blanks
ArticleText(l, len, r) ==
  concat(concat(Run(" ", l),
                concat(concat(Run("a", IF len >= 1 THEN 1 ELSE 0),
                              Run("b", len - 2)),
                       Run("c", IF len >= 2 THEN 1 ELSE 0))),
         Run(" ", r))

\* content.substring(0, 250) of the direct-fetch record
SnippetLimit == 250

TextLengths ==
  {0, 1, SnippetLimit, SnippetLimit + 1}
    \cup (ContentLimit..(ContentLimit + MaxExtra))

\* the article texts served: nothing, blanks only, exactly the budget between
\* blanks, and more than the budget
Texts ==
  {ArticleText(0, 0, 0), ArticleText(MaxPad, 0, MaxPad),
   ArticleText(MaxPad, ContentLimit, MaxPad),
   ArticleText(0, SnippetLimit, 0), ArticleText(0, SnippetLimit + 1, 0)}
  \cup {ArticleText(0, ContentLimit + k, 0) : k \in 1..MaxExtra}

Pages ==
  {[dom |-> "ok", docTitle |-> "Doc", readability |-> "article",
    articleTitle |-> "Art", textContent |-> t] : t \in Texts}
  \cup
  {[dom |-> "ok", docTitle |-> dt, readability |-> "article",
    articleTitle |-> at, textContent |-> ArticleText(0, 1, 0)] :
      dt \in {"", "T1"}, at \in {"", "T1"}}
  \cup
  {[dom |-> "ok", docTitle |-> dt, readability |-> "null"] : dt \in {"", "Doc"}}
  \cup
  {[dom |-> "ok", docTitle |-> "Doc", readability |-> "throws",
    error |-> "TypeError"],
   [dom |-> "throws", error |-> "Error"]}

\* what an awaited fetch() settles to: a rejection (network failure, expiry
\* of the 8 s timeout) or a response with an HTTP status
FetchReplies ==
  {[kind |-> "reject", name |-> "FetchError"]}
  \cup {[kind |-> "response", status |-> c] : c \in {200, 404}}

\* what an awaited response.text() of a page settles to
TextReplies ==
  {[kind |-> "reject", name |-> "FetchError"]}
  \cup {[kind |-> "html", page |-> p] : p \in Pages}

\* URLs
UrlA == <<"h", "t", "t", "p", ":", "/", "/", "a", ".", "i", "o", "/">>
UrlLinkedIn ==
  <<"h", "t", "t", "p", "s", ":", "/", "/", "L", "i", "n", "k", "e", "d",
    "I", "n", ".", "c", "o", "m", "/", "i", "n", "/", "x">>
\* a result without a link
NoLink == <<>>

\* a link that is not a string (the number 42 in the provider's JSON): the
\* only value here whose element is not a single character
NotAString == <<"number:42">>

\* typeof x === "string"
isString(x) == \A i \in 1..Len(x) : Len(x[i]) = 1

\* the candidates a provider may rank, as SerpAPI reports them
Candidates ==
  {[title |-> "T1", link |-> UrlA, snippet |-> "s1"],
   [title |-> "T3", link |-> UrlLinkedIn, snippet |-> "s3"],
   [title |-> "T4", link |-> NoLink, snippet |-> "s4"],
   [title |-> "T5", link |-> NotAString, snippet |-> "s5"]}

CandidateLists == UNION {[1..n -> Candidates] : n \in 0..MaxResults}

\* the same candidate as Brave reports it
BraveResult(c) == [title |-> c.title, url |-> c.link, description |-> c.snippet]

\* the parsed JSON body of the provider
SerpBodies ==
  {[organic_results |-> l, search_metadata |-> "m"] : l \in CandidateLists}
  \cup {[search_metadata |-> "m"]}
  \cup {[error |-> "Invalid API key."]}

BraveBodies ==
  {[web |-> [results |-> [i \in 1..Len(l) |-> BraveResult(l[i])]]] :
     l \in CandidateLists}
  \cup {[query |-> "q"]}
  \cup {[error |-> "Rate limit exceeded."]}

\* a malformed payload: the provider's body is the JSON value null
JsonNull == [null |-> TRUE]

ProviderBodies(v) ==
  (IF v = VPart000 THEN BraveBodies ELSE SerpBodies) \cup {JsonNull}

\* the body of a non-success response of the provider
Denied == [message |-> "denied"]

\* what the provider call settles to
ProviderReplies(v) ==
  {[kind |-> "reject", name |-> "FetchError"]}
  \cup {[kind |-> "response", status |-> c, body |-> b] :
          c \in {200}, b \in ProviderBodies(v)}
  \cup {[kind |-> "response", status |-> c, body |-> Denied] :
          c \in {401, 503}}

\* the query strings of the requests
QueryCat == <<"c", "a", "t">>
QueryUrlUpper ==
  <<"U", "R", "L", ":", "H", "t", "t", "p", "s", ":", "/", "/", "b", ".", "i", "o", "/">>
QueryUrlBad == <<"u", "r", "l", ":", "n", "o", "t", "-", "a", "-", "u", "r", "l">>
QueryUrlEmpty == <<"u", "r", "l", ":">>
\* a remainder that begins with "http" and is no URL
QueryUrlHttpx == <<"u", "r", "l", ":", "h", "t", "t", "p", "x">>
NoQuery == <<>>
Queries ==
  {NoQuery, QueryCat, QueryUrlUpper, QueryUrlBad, QueryUrlEmpty, QueryUrlHttpx}

Requests ==
  [method : {"GET", "OPTIONS", "POST"}, query : Queries, apiKey : BOOLEAN]

(***************************************************************************)
(* State                                                                   *)
(***************************************************************************)
VARIABLES
  variant,      \* which revision of the handler serves the request
  req,          \* the request: method, query parameter, whether the key is set
  pc,           \* where the handler is: start, awaitProvider, awaitAll,
                \* awaitDirect, done, or crashed (its promise rejected
                \* and no response was sent)
  res,          \* the response sent: Null or Some([status, body])
  serpData,     \* the provider's parsed body, once received
  tasks,        \* the extractions launched, one promise per processed result:
                \* [st, url, item, page, error, thrown, extraction, value], the
                \* record being annotated, the page received, the error
                \* caught, the exception the promise rejected with, the
                \* extractor's outcome and the resolved value
  fetchLog,     \* the page fetches issued, in order: [task, url]
  providerLog,  \* the queries sent to the search provider, in order
  settled       \* the indices of the tasks in the order they completed

vars == <<variant, req, pc, res, serpData, tasks, fetchLog, providerLog, settled>>

Init ==
  /\ variant \in Variants
  /\ req \in Requests
  /\ pc = "start"
  /\ res = Null
  /\ serpData = Null
  /\ tasks = <<>>
  /\ fetchLog = <<>>
  /\ providerLog = <<>>
  /\ settled = <<>>

(***************************************************************************)
(* The per-result callback of resultsToProcess.map(async (result) => ...)  *)
(***************************************************************************)
\* const resultsToProcessLimit = 2
resultsToProcessLimit == 2

StatusLinkedIn ==
  "Direct content extraction for LinkedIn profiles is generally not feasible due to login walls and site restrictions. Rely on snippets or ask the user for details."

StatusNoLink(v) ==
  IF v = VPart000
    THEN "No link provided in Brave search result."
    ELSE "No link provided in search result."

StatusNotAttempted == "Processing not attempted yet."

\* "linkedin.com/"
LinkedInNeedle ==
  <<"l", "i", "n", "k", "e", "d", "i", "n", ".", "c", "o", "m", "/">>

\* a test of the domain that forgets to fold the case
isLinkedInCaseSensitive(link) == includes(link, LinkedInNeedle)

\* newResult.link.toLowerCase().includes("linkedin.com/") (search.js only)
isLinkedIn(link) == includes(toLowerCase(link), LinkedInNeedle)

\* the record the callback starts from
mapStart(v, result) ==
  IF v = VSearch THEN result
  ELSE IF v = VPart000
    THEN [title |-> OrElse(result.title, NoTitle),
          link |-> result.url,
          snippet |-> OrElse(result.description, NoTitle),
          extracted_content |-> Null,
          extracted_content_status |-> StatusNotAttempted]
    ELSE Spread(result, [extracted_content |-> Null,
                         extracted_content_status |-> StatusNotAttempted])

\* a callback that extracts every link it is given
callsExtractorAnyLink(v, newResult) == newResult.link # NoLink

\* a callback that extracts whether or not there is a link
callsExtractorAlways(v, newResult) == TRUE

\* whether the callback reaches "await fetchAndExtractReadableContent(link)"
callsExtractor(v, newResult) ==
  /\ newResult.link # NoLink
  /\ ~(v = VSearch /\ isLinkedIn(newResult.link))

\* a callback that forgets the status of a result without a link
mapWithoutFetchKeepsStatus(v, newResult) == newResult

\* the branches of the callback that return without fetching
mapWithoutFetch(v, newResult) ==
  IF v = VSearch
    THEN IF newResult.link # NoLink
      THEN Spread(newResult, [extracted_content_status |-> StatusLinkedIn,
                              extracted_content |-> Null])
      ELSE Spread(newResult, [extracted_content_status |-> StatusNoLink(v),
                              extracted_content |-> Null])
    ELSE Spread(newResult, [extracted_content_status |-> StatusNoLink(v)])

\* a merge that takes the extracted title whatever it is
mapAfterExtractionAnyTitle(v, newResult, extraction) ==
  LET merged == Spread(newResult,
                       [extracted_content |-> extraction.content,
                        extracted_content_status |-> extraction.status])
  IN IF v = VPart000 THEN Spread(merged, [title |-> extraction.title])
                     ELSE merged

\* the callback after the extraction it awaited has returned
mapAfterExtraction(v, newResult, extraction) ==
  LET merged == Spread(newResult,
                       [extracted_content |-> extraction.content,
                        extracted_content_status |-> extraction.status])
  IN IF v = VPart000 /\ extraction.title # "" /\ extraction.title # NoTitle
          /\ extraction.title # newResult.title
       THEN Spread(merged, [title |-> extraction.title])
       ELSE merged

Min(a, b) == IF a < b THEN a ELSE b

\* a slice that takes the whole list
slice0Whole(list, k) == list

\* a slice that takes one element too many
slice0OneMore(list, k) == SubSeq(list, 1, Min(k + 1, Len(list)))

\* list.slice(0, k)
slice0(list, k) == SubSeq(list, 1, Min(k, Len(list)))

\* a splice that loses the elements after the replaced ones
splice0Truncating(list, k, items) == items

\* list.splice(0, k, ...items): the list after the call
splice0(list, k, items) == items \o SubSeq(list, k + 1, Len(list))

\* newResult.link.toLowerCase is not a function: the callback of search.js
\* throws on a link that is truthy and not a string
callbackThrows(v, newResult) ==
  v = VSearch /\ newResult.link # NoLink /\ ~isString(newResult.link)

\* an extractor outcome that is an exception leaving the extractor
IsThrow(extraction) == "thrown" \in DOMAIN extraction

\* the promise of the code that awaited an extraction, once the extraction
\* has returned or thrown: the map callback merges the outcome into its
\* record, the direct-fetch branch keeps the outcome as it is
afterExtraction(v, task, direct, extraction, error, page) ==
  IF IsThrow(extraction)
    THEN [task EXCEPT !.st = "rejected", !.page = page,
                      !.thrown = Some(extraction.thrown)]
    ELSE [task EXCEPT
            !.st = "resolved", !.page = page, !.error = error,
            !.extraction = Some(extraction),
            !.value = Some(IF direct THEN extraction
                             ELSE mapAfterExtraction(v, task.item, extraction))]

\* the promise the callback returns for one result, as it stands when map()
\* returns and the microtasks have run: rejected or resolved already, or
\* suspended at the fetch it has just issued
launch(v, result) ==
  LET newResult == mapStart(v, result)
      fresh == [st |-> "awaitFetch", url |-> newResult.link, item |-> newResult,
                page |-> Null, error |-> Null, thrown |-> Null,
                extraction |-> Null, value |-> Null]
  IN
  IF callbackThrows(v, newResult)
    THEN [fresh EXCEPT !.st = "rejected", !.thrown = Some("TypeError")]
  ELSE IF ~callsExtractor(v, newResult)
    THEN [fresh EXCEPT !.st = "resolved", !.url = NoLink,
                       !.value = Some(mapWithoutFetch(v, newResult))]
  ELSE IF ~isString(newResult.link)
    \* fetch() rejects a URL that is not a string before any request is made
    THEN afterExtraction(v, fresh, FALSE, extractCatch(v, "TypeError", NoTitle),
                         Some("TypeError"), Null)
  ELSE fresh

\* a loop that starts the first extraction only and leaves the next one to
\* wait for it
issuedFetchesFirstOnly(ts, i) ==
  IF \E k \in i..Len(ts) : ts[k].st = "awaitFetch"
    THEN LET k == CHOOSE n \in i..Len(ts) :
                    /\ ts[n].st = "awaitFetch"
                    /\ \A m \in i..(n - 1) : ts[m].st # "awaitFetch"
         IN <<[task |-> k, url |-> ts[k].url]>>
    ELSE <<>>

\* the fetches issued by the promises ts from index i on, in index order
RECURSIVE issuedFetches(_, _)
issuedFetches(ts, i) ==
  IF i > Len(ts) THEN <<>>
  ELSE (IF ts[i].st = "awaitFetch" THEN <<[task |-> i, url |-> ts[i].url]>>
        ELSE <<>>) \o issuedFetches(ts, i + 1)

\* the indices of the promises of ts already resolved, in index order
RECURSIVE resolvedAtLaunch(_, _)
resolvedAtLaunch(ts, i) ==
  IF i > Len(ts) THEN <<>>
  ELSE (IF ts[i].st = "resolved" THEN <<i>> ELSE <<>>)
         \o resolvedAtLaunch(ts, i + 1)

\* a join that collects the values in the order the promises completed
PromiseAllByCompletion(ts) == [i \in 1..Len(ts) |-> ts[settled[i]].value[1]]

\* await Promise.all(promises): the values in the order of the promises
PromiseAll(ts) == [i \in 1..Len(ts) |-> ts[i].value[1]]

AllResolved == \A i \in 1..Len(tasks) : tasks[i].st = "resolved"

(***************************************************************************)
(* The handler                                                             *)
(***************************************************************************)
Respond(status, body) ==
  /\ res' = Some([status |-> status, body |-> body])
  /\ pc' = "done"

\* fetch(providerUrl): the query goes out to the search provider
CallProvider ==
  /\ providerLog' = Append(providerLog, req.query)
  /\ pc' = "awaitProvider"
  /\ UNCHANGED <<res, serpData, tasks, fetchLog, settled>>

\* resultsToProcess.map(...): every callback runs up to its first await
FanOut(results) ==
  LET ts == [i \in 1..Len(results) |-> launch(variant, results[i])] IN
  /\ tasks' = ts
  /\ fetchLog' = fetchLog \o issuedFetches(ts, 1)
  /\ settled' = resolvedAtLaunch(ts, 1)
  /\ pc' = "awaitAll"
  /\ UNCHANGED res

UrlPrefix == <<"u", "r", "l", ":">>
HttpPrefix == <<"h", "t", "t", "p">>

\* the URLs fetch() makes a request for: absolute ones, with the scheme http
\* or https; for any other string it throws a TypeError at once
isHttpUrl(url) ==
  \/ startsWith(toLowerCase(url), <<"h", "t", "t", "p", ":", "/", "/">>)
  \/ startsWith(toLowerCase(url), <<"h", "t", "t", "p", "s", ":", "/", "/">>)

\* !(!actualUrl || !actualUrl.toLowerCase().startsWith("http"))
isDirectUrl(actualUrl) ==
  actualUrl # <<>> /\ startsWith(toLowerCase(actualUrl), HttpPrefix)

\* the "url:" branch of part_000 and part_002
DirectFetch ==
  LET actualUrl == substringFrom(req.query, 4)
      fresh == [st |-> "awaitFetch", url |-> actualUrl,
                item |-> [link |-> actualUrl], page |-> Null,
                error |-> Null, thrown |-> Null,
                extraction |-> Null, value |-> Null]
  IN
  IF ~isDirectUrl(actualUrl)
    THEN /\ Respond(400, [error |-> "Invalid URL for direct fetching."])
         /\ UNCHANGED <<serpData, tasks, fetchLog, providerLog, settled>>
  ELSE IF ~isHttpUrl(actualUrl)
    THEN /\ tasks' = <<afterExtraction(variant, fresh, TRUE,
                         extractCatch(variant, "TypeError", NoTitle),
                         Some("TypeError"), Null)>>
         /\ settled' = <<1>>
         /\ pc' = "awaitDirect"
         /\ UNCHANGED <<res, serpData, fetchLog, providerLog>>
    ELSE /\ tasks' = <<fresh>>
         /\ fetchLog' = Append(fetchLog, [task |-> 1, url |-> actualUrl])
         /\ pc' = "awaitDirect"
         /\ UNCHANGED <<res, serpData, providerLog, settled>>

RespondOnly(status, body) ==
  /\ Respond(status, body)
  /\ UNCHANGED <<serpData, tasks, fetchLog, providerLog, settled>>

\* src/api/search.js, from the entry to the provider call
HandlerSearch ==
  /\ pc = "start" /\ variant = VSearch
  /\ IF req.method = "OPTIONS" THEN RespondOnly(200, <<>>)
     ELSE IF req.method # "GET"
       THEN RespondOnly(405, [error |-> "Method Not Allowed"])
     ELSE IF req.query = NoQuery
       THEN RespondOnly(400, [error |-> "Missing query parameter"])
     ELSE IF ~req.apiKey
       THEN RespondOnly(500,
              [error |-> "Search service API key is not configured on the server."])
     ELSE CallProvider
  /\ UNCHANGED <<variant, req>>

\* part_000, from the entry to the first await
HandlerPart000 ==
  /\ pc = "start" /\ variant = VPart000
  /\ IF req.method = "OPTIONS" THEN RespondOnly(200, <<>>)
     ELSE IF req.method # "GET"
       THEN RespondOnly(405, [error |-> "Method Not Allowed"])
     ELSE IF req.query = NoQuery
       THEN RespondOnly(400, [error |-> "Missing query parameter"])
     ELSE IF startsWith(toLowerCase(req.query), UrlPrefix) THEN DirectFetch
     ELSE IF ~req.apiKey
       THEN RespondOnly(500,
              [error |-> "Search API key not configured on the server."])
     ELSE CallProvider
  /\ UNCHANGED <<variant, req>>

\* part_001, from the entry to the provider call
HandlerPart001 ==
  /\ pc = "start" /\ variant = VPart001
  /\ IF req.query = NoQuery \/ ~req.apiKey
       THEN RespondOnly(400, [error |-> "Missing query or API key"])
       ELSE CallProvider
  /\ UNCHANGED <<variant, req>>

\* part_002, from the entry to the first await
HandlerPart002 ==
  /\ pc = "start" /\ variant = VPart002
  /\ IF req.method = "OPTIONS" THEN RespondOnly(200, <<>>)
     ELSE IF req.method # "GET"
       THEN RespondOnly(405, [error |-> "Method Not Allowed"])
     ELSE IF req.query = NoQuery
       THEN RespondOnly(400, [error |-> "Missing query parameter"])
     ELSE IF startsWith(toLowerCase(req.query), UrlPrefix) THEN DirectFetch
     ELSE IF ~req.apiKey
       THEN RespondOnly(500, [error |-> "Search API key not configured."])
     ELSE CallProvider
  /\ UNCHANGED <<variant, req>>

HasResults(data) ==
  "organic_results" \in DOMAIN data /\ Len(data.organic_results) > 0

\* the SerpAPI handlers (search.js, part_002) once the provider call settles
SerpContinue(reply, internalError, fetchError, appError) ==
  IF reply.kind = "reject"
    THEN /\ Respond(500, [error |-> internalError, details |-> reply.name])
         /\ UNCHANGED <<serpData, tasks, fetchLog, settled>>
  ELSE IF ~ok(reply)
    THEN /\ Respond(reply.status, [error |-> fetchError, details |-> reply.body])
         /\ UNCHANGED <<serpData, tasks, fetchLog, settled>>
  ELSE IF reply.body = JsonNull
    \* serpData.error throws a TypeError, which the catch block answers
    THEN /\ Respond(500, [error |-> internalError, details |-> "TypeError"])
         /\ serpData' = Some(reply.body)
         /\ UNCHANGED <<tasks, fetchLog, settled>>
  ELSE IF "error" \in DOMAIN reply.body
    THEN /\ Respond(400, [error |-> appError, details |-> reply.body.error])
         /\ serpData' = Some(reply.body)
         /\ UNCHANGED <<tasks, fetchLog, settled>>
  ELSE IF HasResults(reply.body)
    THEN /\ serpData' = Some(reply.body)
         /\ FanOut(slice0(reply.body.organic_results, resultsToProcessLimit))
  ELSE /\ Respond(200, reply.body)
       /\ serpData' = Some(reply.body)
       /\ UNCHANGED <<tasks, fetchLog, settled>>

ProviderSettlesSearch ==
  /\ pc = "awaitProvider" /\ variant = VSearch
  /\ \E reply \in ProviderReplies(variant) :
       SerpContinue(reply,
         "Failed to process search request due to an internal server error.",
         "Failed to fetch from Search API (SerpAPI)",
         "Search API application error")
  /\ UNCHANGED <<variant, req, providerLog>>

ProviderSettlesPart002 ==
  /\ pc = "awaitProvider" /\ variant = VPart002
  /\ \E reply \in ProviderReplies(variant) :
       SerpContinue(reply,
         "Internal server error processing request.",
         "SerpAPI fetch error",
         "SerpAPI application error")
  /\ UNCHANGED <<variant, req, providerLog>>

HasWebResults(data) ==
  /\ "web" \in DOMAIN data
  /\ "results" \in DOMAIN data.web
  /\ Len(data.web.results) > 0

ProviderSettlesPart000 ==
  /\ pc = "awaitProvider" /\ variant = VPart000
  /\ \E reply \in ProviderReplies(variant) :
       IF reply.kind = "reject"
         THEN /\ Respond(500,
                   [error |-> "Network error while contacting Brave Search API.",
                    details |-> reply.name])
              /\ UNCHANGED <<serpData, tasks, fetchLog, settled>>
       ELSE IF ~ok(reply)
         THEN /\ Respond(reply.status,
                   [error |-> "Brave API fetch error", details |-> reply.body])
              /\ UNCHANGED <<serpData, tasks, fetchLog, settled>>
       ELSE IF reply.body = JsonNull
         \* braveData.web throws a TypeError outside every try block: the
         \* handler's promise rejects and no response is sent
         THEN /\ pc' = "crashed"
              /\ serpData' = Some(reply.body)
              /\ UNCHANGED <<res, tasks, fetchLog, settled>>
       ELSE IF HasWebResults(reply.body)
         THEN /\ serpData' = Some(reply.body)
              /\ FanOut(slice0(reply.body.web.results, resultsToProcessLimit))
       ELSE /\ Respond(200, [organic_results |-> <<>>])
            /\ serpData' = Some(reply.body)
            /\ UNCHANGED <<tasks, fetchLog, settled>>
  /\ UNCHANGED <<variant, req, providerLog>>

\* part_001 relays whatever body the provider sent
ProviderSettlesPart001 ==
  /\ pc = "awaitProvider" /\ variant = VPart001
  /\ \E reply \in ProviderReplies(variant) :
       IF reply.kind = "reject"
         THEN /\ Respond(500, [error |-> "Failed to fetch from SerpAPI"])
              /\ UNCHANGED serpData
         ELSE /\ Respond(200, reply.body)
              /\ serpData' = Some(reply.body)
  /\ UNCHANGED <<variant, req, tasks, fetchLog, providerLog, settled>>

\* the error JSDOM or Readability throws on a page, if any
thrownBy(page) ==
  IF page.dom = "throws" \/ page.readability = "throws"
    THEN Some(page.error) ELSE Null

\* extraction i returns (or throws) to the code that awaited it
settle(i, extraction, error, page) ==
  /\ tasks' = [tasks EXCEPT
       ![i] = afterExtraction(variant, tasks[i], pc = "awaitDirect",
                              extraction, error, page)]
  /\ settled' = IF IsThrow(extraction) THEN settled ELSE Append(settled, i)

\* an extraction goes on while the handler awaits it, and also after the
\* handler has given up on the join because a sibling promise rejected
Running == pc \in {"awaitAll", "awaitDirect", "done", "crashed"}

\* an extractor that fetches the page a second time when the fetch failed
FetchSettlesRetrying(i) ==
  /\ Running
  /\ i \in 1..Len(tasks) /\ tasks[i].st = "awaitFetch"
  /\ \E reply \in FetchReplies :
       IF reply.kind = "reject" /\ Len(fetchLog) <= Len(tasks)
         THEN /\ fetchLog' = Append(fetchLog, [task |-> i, url |-> tasks[i].url])
              /\ UNCHANGED <<tasks, settled>>
       ELSE IF reply.kind = "reject"
         THEN /\ settle(i, extractCatch(variant, reply.name, NoTitle),
                        Some(reply.name), Null)
              /\ UNCHANGED fetchLog
       ELSE IF ~ok(reply)
         THEN /\ settle(i, extractNotOk(variant, reply), Null, Null)
              /\ UNCHANGED fetchLog
       ELSE /\ tasks' = [tasks EXCEPT ![i].st = "awaitText"]
            /\ UNCHANGED <<settled, fetchLog>>
  /\ UNCHANGED <<variant, req, pc, res, serpData, providerLog>>

\* "await fetch(urlToFetch, ...)" of extraction i settles
FetchSettles(i) ==
  /\ Running
  /\ i \in 1..Len(tasks) /\ tasks[i].st = "awaitFetch"
  /\ \E reply \in FetchReplies :
       IF reply.kind = "reject"
         THEN settle(i, extractCatch(variant, reply.name, NoTitle),
                     Some(reply.name), Null)
       ELSE IF ~ok(reply)
         THEN settle(i, extractNotOk(variant, reply), Null, Null)
       ELSE /\ tasks' = [tasks EXCEPT ![i].st = "awaitText"]
            /\ UNCHANGED settled
  /\ UNCHANGED <<variant, req, pc, res, serpData, fetchLog, providerLog>>

\* "await response.text()" of extraction i settles; the rest of the
\* extractor is synchronous
TextSettles(i) ==
  /\ Running
  /\ i \in 1..Len(tasks) /\ tasks[i].st = "awaitText"
  /\ \E reply \in TextReplies :
       IF reply.kind = "reject"
         THEN settle(i, extractCatch(variant, reply.name, NoTitle),
                     Some(reply.name), Null)
         ELSE settle(i, extractFromHtml(variant, reply.page),
                     thrownBy(reply.page), Some(reply.page))
  /\ UNCHANGED <<variant, req, pc, res, serpData, fetchLog, providerLog>>

\* the response of the search branch, once Promise.all has resolved
searchResponse(v, data, processedResults) ==
  IF v = VPart000
    THEN [organic_results |-> processedResults]
    ELSE Spread(data,
           [organic_results |->
              splice0(data.organic_results, resultsToProcessLimit,
                      processedResults)])

\* a join that resumes as soon as one promise has resolved and answers with
\* the records as they stand
JoinOnFirst ==
  /\ pc = "awaitAll"
  /\ \E i \in 1..Len(tasks) : tasks[i].st = "resolved"
  /\ Respond(200, searchResponse(variant, serpData[1],
                [i \in 1..Len(tasks) |->
                   IF tasks[i].value # Null THEN tasks[i].value[1]
                                            ELSE tasks[i].item]))
  /\ UNCHANGED <<variant, req, serpData, tasks, fetchLog, providerLog, settled>>

\* "await Promise.all(processedResultsPromises)" resumes; the handler responds
Join ==
  /\ pc = "awaitAll" /\ AllResolved
  /\ Respond(200, searchResponse(variant, serpData[1], PromiseAll(tasks)))
  /\ UNCHANGED <<variant, req, serpData, tasks, fetchLog, providerLog, settled>>

\* a promise the handler awaits rejects: the await throws.  search.js and
\* part_002 catch it in the try block around the whole branch; part_000 has
\* no try block there, so the handler's own promise rejects and no response
\* is sent
Reject ==
  /\ pc \in {"awaitAll", "awaitDirect"}
  /\ \E i \in 1..Len(tasks) : tasks[i].st = "rejected"
  /\ IF variant = VPart000
       THEN pc' = "crashed" /\ UNCHANGED res
       ELSE \E i \in 1..Len(tasks) :
              /\ tasks[i].st = "rejected"
              /\ Respond(500,
                   [error |-> IF variant = VSearch
                      THEN "Failed to process search request due to an internal server error."
                      ELSE "Internal server error processing request.",
                    details |-> tasks[i].thrown[1]])
  /\ UNCHANGED <<variant, req, serpData, tasks, fetchLog, providerLog, settled>>

NotAvailable == concat(concat(Run("N", 1), Run("/", 1)), Run("A", 1))

\* the record of the direct-fetch branch
directResponse(actualUrl, extractionResult) ==
  [source_url |-> actualUrl,
   title |-> extractionResult.title,
   snippet |->
     IF extractionResult.content # Null /\ extractionResult.content[1] # EmptyText
       THEN concat(substring0(extractionResult.content[1], SnippetLimit),
                   IF length(extractionResult.content[1]) > SnippetLimit
                     THEN Ellipsis ELSE EmptyText)
       ELSE NotAvailable,
   extracted_content |-> extractionResult.content,
   extracted_content_status |-> extractionResult.status]

\* "await fetchAndExtractReadableContent(actualUrl)" resumes
DirectRespond ==
  /\ pc = "awaitDirect" /\ AllResolved
  /\ Respond(200, directResponse(tasks[1].url, tasks[1].value[1]))
  /\ UNCHANGED <<variant, req, serpData, tasks, fetchLog, providerLog, settled>>

Next ==
  \/ HandlerSearch
  \/ HandlerPart000
  \/ HandlerPart001
  \/ HandlerPart002
  \/ ProviderSettlesSearch
  \/ ProviderSettlesPart000
  \/ ProviderSettlesPart001
  \/ ProviderSettlesPart002
  \/ \E i \in 1..resultsToProcessLimit : FetchSettles(i)
  \/ \E i \in 1..resultsToProcessLimit : TextSettles(i)
  \/ Join
  \/ Reject
  \/ DirectRespond

Spec == Init /\ [][Next]_vars

\* the event loop resumes the handler once the promise it awaits has
\* settled: the join is not postponed for ever
FairSpec == Spec /\ WF_vars(Join)

(***************************************************************************)
(* Vocabulary of the properties                                            *)
(***************************************************************************)
\* the request was a search that the provider answered and the handler
\* answered with success
SearchSuccess ==
  /\ pc = "done" /\ res # Null /\ res[1].status = 200
  /\ providerLog # <<>> /\ serpData # Null

\* the ranked list the provider returned
ProviderList ==
  IF serpData = Null THEN <<>>
  ELSE IF variant = VPart000
    THEN (IF HasWebResults(serpData[1]) THEN serpData[1].web.results ELSE <<>>)
    ELSE (IF HasResults(serpData[1]) THEN serpData[1].organic_results ELSE <<>>)

\* the result sequence of the response
ResponseResults ==
  IF res # Null /\ "organic_results" \in DOMAIN res[1].body
    THEN res[1].body.organic_results ELSE <<>>

CandidateLink(c) == IF "url" \in DOMAIN c THEN c.url ELSE c.link
CandidateSnippet(c) == IF "description" \in DOMAIN c THEN c.description ELSE c.snippet

HasStatus(r) == "extracted_content_status" \in DOMAIN r
HasContentField(r) == "extracted_content" \in DOMAIN r
\* the record carries a text (neither null nor missing)
HasContent(r) == HasContentField(r) /\ r.extracted_content # Null

SkippedStatuses ==
  {"Direct content extraction for LinkedIn profiles is generally not feasible due to login walls and site restrictions. Rely on snippets or ask the user for details.",
   "No link provided in search result.",
   "No link provided in Brave search result."}

IsSuccessStatus(st) == st = "Content extracted successfully."

Restricted(link) == includes(toLowerCase(link), LinkedInNeedle)

C2_OutcomesByInputIndex ==
  (SearchSuccess /\ variant \in Extracting) =>
    \A i \in 1..Len(ResponseResults) :
      /\ i <= Len(ProviderList)
      /\ ResponseResults[i].link = CandidateLink(ProviderList[i])
      /\ ResponseResults[i].snippet = CandidateSnippet(ProviderList[i])
      /\ (i <= Len(tasks) /\ tasks[i].extraction # Null) =>
           /\ tasks[i].url = CandidateLink(ProviderList[i])
           /\ isString(tasks[i].url) =>
                \E j \in 1..Len(fetchLog) :
                  fetchLog[j] = [task |-> i, url |-> CandidateLink(ProviderList[i])]
           /\ ResponseResults[i].extracted_content_status
                = tasks[i].extraction[1].status
           /\ ResponseResults[i].extracted_content
                = tasks[i].extraction[1].content

\* the second extraction completed before the first, with another outcome
C2_Witness ==
  /\ SearchSuccess /\ variant \in Extracting
  /\ settled = <<2, 1>>
  /\ tasks[1].extraction # Null /\ tasks[2].extraction # Null
  /\ tasks[1].extraction[1].status # tasks[2].extraction[1].status
  /\ tasks[1].url # tasks[2].url

\* the i-th result is one of the first resultsToProcessLimit and carries a
\* status, which is not a Skipped one if the candidate has a URL outside the
\* access-restricted class
ProcessedAt(i) ==
  /\ i <= Len(ResponseResults)
  /\ HasStatus(ResponseResults[i])
  /\ (/\ CandidateLink(ProviderList[i]) # NoLink
      /\ ~Restricted(CandidateLink(ProviderList[i])))
       => ResponseResults[i].extracted_content_status \notin SkippedStatuses

DirectSuccess ==
  /\ pc = "done" /\ res # Null /\ res[1].status = 200
  /\ "source_url" \in DOMAIN res[1].body

\* the content of record r is a text exactly when its status is Success
ContentIffSuccess(r) ==
  HasContent(r) <=> (HasStatus(r) /\ IsSuccessStatus(r.extracted_content_status))

\* C4: every outcome of the page extractor and every result record of a
\* response has non-null content if and only if its status is Success.
C4_ContentIffSuccess ==
  /\ \A i \in 1..Len(tasks) :
       tasks[i].extraction # Null =>
         (tasks[i].extraction[1].content # Null
            <=> IsSuccessStatus(tasks[i].extraction[1].status))
  /\ SearchSuccess =>
       \A i \in 1..Len(ResponseResults) : ContentIffSuccess(ResponseResults[i])
  /\ DirectSuccess => ContentIffSuccess(res[1].body)

\* a response in which one result has content and another, whose extraction
\* failed, has none
C4_Witness ==
  /\ SearchSuccess /\ Len(ResponseResults) >= 2
  /\ HasContent(ResponseResults[1])
  /\ tasks[2].extraction # Null
  /\ ~HasContent(ResponseResults[2])

\* the content the budget leaves of an article text of len characters
\* ("a", then "b"s, then "c"), written out
ExpectedContent(len) ==
  IF len = 0 THEN <<>>
  ELSE IF len = 1 THEN <<[ch |-> "a", n |-> 1]>>
  ELSE IF len = 2 THEN <<[ch |-> "a", n |-> 1], [ch |-> "c", n |-> 1]>>
  ELSE IF len <= 4000
    THEN <<[ch |-> "a", n |-> 1], [ch |-> "b", n |-> len - 2], [ch |-> "c", n |-> 1]>>
  ELSE <<[ch |-> "a", n |-> 1], [ch |-> "b", n |-> 3999], [ch |-> ".", n |-> 3]>>

\* the texts of len characters between blanks
PaddedTexts ==
  [len \in TextLengths |-> {ArticleText(pad, len, pad) : pad \in {0, MaxPad}}]

\* extraction i read an article whose text is len characters between blanks
ReadArticle(i, len) ==
  /\ tasks[i].page # Null
  /\ tasks[i].page[1].dom = "ok"
  /\ tasks[i].page[1].readability = "article"
  /\ tasks[i].page[1].textContent # EmptyText
  /\ tasks[i].page[1].textContent \in PaddedTexts[len]

\* C5: the content of a Success outcome is the trimmed text when that has at
\* most 4000 characters, and its first 4000 characters followed by "..."
\* when it has more; so no content is longer than 4003 characters.
C5_TruncationRule ==
  \A i \in 1..Len(tasks) :
    /\ \A len \in TextLengths :
         ReadArticle(i, len) =>
           /\ tasks[i].extraction # Null
           /\ IsSuccessStatus(tasks[i].extraction[1].status)
           /\ tasks[i].extraction[1].content = Some(ExpectedContent(len))
    /\ (tasks[i].extraction # Null /\ tasks[i].extraction[1].content # Null) =>
         length(tasks[i].extraction[1].content[1]) <= 4003

\* one extraction read a text of exactly 4000 characters and another a text
\* of 4001
C5_Witness ==
  /\ Len(tasks) = 2
  /\ ReadArticle(1, 4000) /\ ReadArticle(2, 4001)
  /\ length(tasks[1].extraction[1].content[1]) = 4000
  /\ length(tasks[2].extraction[1].content[1]) = 4003

\* a page fetch was issued for candidate i of the provider's list
FetchedFor(i) == \E j \in 1..Len(fetchLog) : fetchLog[j].task = i

\* the handler has received the provider's list and started on it
FannedOut == pc \in {"awaitAll", "done", "crashed"} /\ Len(tasks) > 0 /\ providerLog # <<>>

NoLinkStatuses ==
  {"No link provided in search result.",
   "No link provided in Brave search result."}

TransportErrorStatus(name) ==
  IF variant = VSearch
    THEN "Error during content extraction: " \o name \o "."
    ELSE "Error during content extraction: " \o name
           \o ". The site might be blocking automated access."

\* C9: the page extractor never lets an exception out: whatever fails while
\* fetching, reading the body, parsing or running Readability, the extractor
\* returns an outcome with null content whose status names the error; a
\* promise is only ever rejected by the callback of search.js itself (a link
\* that is not a string), and an extraction under way can always go on.
C9_ExtractorNeverThrows ==
  \A i \in 1..Len(tasks) :
    /\ tasks[i].st = "rejected" =>
         (variant = VSearch /\ ~isString(tasks[i].item.link) /\ ~FetchedFor(i))
    /\ tasks[i].error # Null =>
         /\ tasks[i].st = "resolved"
         /\ tasks[i].extraction # Null
         /\ tasks[i].extraction[1].status = TransportErrorStatus(tasks[i].error[1])
         /\ tasks[i].extraction[1].content = Null
    /\ tasks[i].st \in {"awaitFetch", "awaitText"} =>
         ENABLED (FetchSettles(i) \/ TextSettles(i))

\* one extraction failed at the fetch and another while parsing the page
C9_Witness ==
  /\ Len(tasks) = 2
  /\ tasks[1].error # Null /\ tasks[1].page = Null /\ FetchedFor(1)
  /\ tasks[2].error # Null /\ tasks[2].page # Null
  /\ tasks[1].st = "resolved" /\ tasks[2].st = "resolved"

\* the extraction of candidate i ended in one of the failures
FailedAt(i) ==
  /\ tasks[i].extraction # Null
  /\ ~IsSuccessStatus(tasks[i].extraction[1].status)

\* no callback met a link that is not a string (malformed provider data)
NoCallbackThrew ==
  \A i \in 1..Len(tasks) : ~callbackThrows(variant, tasks[i].item)

\* once the handler is through with a list it started on, it has answered
\* with success and every processed candidate shows its own outcome
ContainedAtTheEnd ==
  (variant \in Extracting /\ pc \in {"done", "crashed"} /\ providerLog # <<>>
     /\ Len(tasks) > 0 /\ NoCallbackThrew) =>
    /\ res # Null /\ res[1].status = 200
    /\ \A i \in 1..Len(tasks) :
         /\ tasks[i].st = "resolved"
         /\ i <= Len(ResponseResults)
         /\ tasks[i].extraction # Null =>
              /\ ResponseResults[i].extracted_content_status
                   = tasks[i].extraction[1].status
              /\ ResponseResults[i].extracted_content
                   = tasks[i].extraction[1].content

\* a step changes at most one extraction, and none that has its outcome
SiblingsUntouched ==
  \A i \in 1..Len(tasks) :
    /\ Len(tasks') = Len(tasks)
    /\ tasks[i].extraction # Null => tasks'[i] = tasks[i]
    /\ \A j \in 1..Len(tasks) :
         (i # j /\ tasks'[i] # tasks[i]) => tasks'[j] = tasks[j]

BeginsAnyCase(s, lower, upper) ==
  /\ Len(s) >= Len(lower)
  /\ \A i \in 1..Len(lower) : s[i] \in {lower[i], upper[i]}

\* the query begins with "url:", whatever the case of its letters
UrlQuery ==
  BeginsAnyCase(req.query, <<"u", "r", "l", ":">>, <<"U", "R", "L", ":">>)

\* an absolute URL of scheme http or https
AbsoluteHttp(url) ==
  \/ BeginsAnyCase(url, <<"h", "t", "t", "p", ":", "/", "/">>,
                        <<"H", "T", "T", "P", ":", "/", "/">>)
  \/ BeginsAnyCase(url, <<"h", "t", "t", "p", "s", ":", "/", "/">>,
                        <<"H", "T", "T", "P", "S", ":", "/", "/">>)

\* what follows the prefix
Remainder == substringFrom(req.query, 4)

\* a GET request whose query has the prefix and a remainder that is missing
\* or is no absolute http(s) URL
InvalidDirect == req.method = "GET" /\ UrlQuery /\ ~AbsoluteHttp(Remainder)

\* C11: a "url:" query whose remainder is missing or is not a syntactically
\* valid absolute HTTP(S) URL ends with a validation error (status 400), and
\* neither the page extractor nor the search provider is invoked for it.
C11_InvalidUrlRejected ==
  InvalidDirect =>
    /\ tasks = <<>> /\ fetchLog = <<>> /\ providerLog = <<>>
    /\ pc = "done" => res[1].status = 400

\* the request was served by one extraction of the remainder and nothing else
DirectServed ==
  /\ Len(tasks) = 1 /\ tasks[1].url = Remainder
  /\ fetchLog = <<[task |-> 1, url |-> Remainder]>>
  /\ providerLog = <<>>

\* the query went to the provider as it came, once, and was not fetched
Forwarded ==
  /\ providerLog = <<req.query>>
  /\ pc # "awaitDirect"
  /\ \A j \in 1..Len(fetchLog) :
       fetchLog[j].url # req.query /\ fetchLog[j].url # Remainder

\* the routing of part_000 and part_002
RoutedByPrefix ==
  /\ (UrlQuery /\ AbsoluteHttp(Remainder)) => DirectServed
  /\ (~UrlQuery /\ req.apiKey) => Forwarded

\* a GET request with a query, past the entry of the handler
Routed == req.method = "GET" /\ req.query # NoQuery /\ pc # "start"

ProviderRefused ==
  \/ serpData = Some(Denied)
  \/ /\ res # Null /\ providerLog # <<>>
     /\ "error" \in DOMAIN res[1].body
     /\ res[1].body.error \in {"Failed to fetch from Search API (SerpAPI)",
                               "SerpAPI fetch error", "Brave API fetch error"}

\* the provider answered with a body that carries an error field
ProviderAppError ==
  serpData # Null /\ serpData[1] # Denied /\ "error" \in DOMAIN serpData[1]

\* C13: when the provider returns a non-success response or a body with an
\* application-level error field, the request ends with an error response
\* and never with a success response, and no page extraction is started.
C13_ProviderErrorSurfaced ==
  (ProviderRefused \/ ProviderAppError) =>
    /\ tasks = <<>> /\ fetchLog = <<>>
    /\ pc = "done" /\ res # Null
    /\ res[1].status >= 400
    /\ "error" \in DOMAIN res[1].body

CandidateTitle(c) == c.title

\* extraction i returned a title that is present: neither empty nor "N/A"
TitleExtracted(i) ==
  /\ tasks[i].extraction # Null
  /\ "title" \in DOMAIN tasks[i].extraction[1]
  /\ tasks[i].extraction[1].title \notin {"", "N/A"}

\* the title the merge rule gives the i-th result
MergedTitle(i) ==
  IF TitleExtracted(i)
       /\ tasks[i].extraction[1].title # CandidateTitle(ProviderList[i])
    THEN tasks[i].extraction[1].title
    ELSE CandidateTitle(ProviderList[i])

\* the i-th result has the candidate's link and snippet
FieldsInherited(i) ==
  /\ ResponseResults[i].link = CandidateLink(ProviderList[i])
  /\ ResponseResults[i].snippet = CandidateSnippet(ProviderList[i])

DirectDone ==
  /\ pc \in {"done", "crashed"}
  /\ providerLog = <<>> /\ Len(tasks) = 1

\* the first SnippetLimit characters of an article text of len characters
\* ("a", then "b"s, then "c"), with "..." when there are more, written out
ExpectedSnippet(len) ==
  IF len <= SnippetLimit THEN ExpectedContent(len)
  ELSE <<[ch |-> "a", n |-> 1], [ch |-> "b", n |-> 249], [ch |-> ".", n |-> 3]>>

\* C15: a direct-fetch request ends, whatever the outcome of the extraction,
\* with one record of exactly the fields source_url, title, snippet,
\* extracted_content and extracted_content_status; the content and the
\* status are the outcome's, and the snippet is the first 250 characters of
\* the content, followed by "..." exactly when the content is longer.
C15_DirectRecord ==
  DirectDone =>
    /\ res # Null /\ res[1].status = 200
    /\ DOMAIN res[1].body = {"source_url", "title", "snippet",
                             "extracted_content", "extracted_content_status"}
    /\ res[1].body.source_url = Remainder
    /\ tasks[1].extraction # Null
    /\ res[1].body.extracted_content = tasks[1].extraction[1].content
    /\ res[1].body.extracted_content_status = tasks[1].extraction[1].status
    /\ \A len \in TextLengths :
         ReadArticle(1, len) => res[1].body.snippet = ExpectedSnippet(len)

\* a failure was raised in the search branch after the provider was called:
\* the provider's payload is malformed or a callback of the fan-out threw
UnexpectedFailure ==
  /\ variant \in Extracting /\ providerLog # <<>>
  /\ \/ serpData = Some(JsonNull)
     \/ \E i \in 1..Len(tasks) : tasks[i].st = "rejected"

\* C16: an unexpected failure while a search request is processed (malformed
\* provider payload, failure during aggregation) is caught at the top level
\* of the handler and ends the request with the generic internal-error
\* response; no request is left without a response: the handler never ends
\* without one, and while a failure is unanswered the catch block is due.
C16_FailuresCaught ==
  /\ pc # "crashed"
  /\ (UnexpectedFailure /\ pc = "done") =>
       /\ res # Null /\ res[1].status = 500
       /\ "error" \in DOMAIN res[1].body
  /\ (UnexpectedFailure /\ pc # "done") => ENABLED Reject

\* C17: in a search request at most resultsToProcessLimit page fetches are
\* issued, and each is of the URL of one of the first resultsToProcessLimit
\* candidates of the provider's list; no candidate beyond the cut is fetched.
C17_FetchesWithinTheCut ==
  providerLog # <<>> =>
    /\ Len(fetchLog) <= resultsToProcessLimit
    /\ \A j \in 1..Len(fetchLog) :
         /\ fetchLog[j].task <= resultsToProcessLimit
         /\ fetchLog[j].task <= Len(ProviderList)
         /\ fetchLog[j].url = CandidateLink(ProviderList[fetchLog[j].task])
    /\ \A i \in 1..Len(ProviderList) :
         i > resultsToProcessLimit => ~FetchedFor(i)

\* a list of three candidates with URLs was answered after two fetches, none
\* of them for the third
C17_Witness ==
  /\ SearchSuccess /\ variant \in Extracting
  /\ Len(ProviderList) = 3
  /\ \A i \in 1..3 : CandidateLink(ProviderList[i]) = UrlA
  /\ Len(fetchLog) = 2
  /\ FetchedFor(1) /\ FetchedFor(2) /\ ~FetchedFor(3)

\* every extraction launched for the request has completed with an outcome
EveryExtractionCompleted ==
  \A i \in 1..Len(tasks) : tasks[i].st = "resolved" /\ tasks[i].value # Null

\* no extraction is in flight when a search has been answered with success
NoneInFlightAtSuccess == SearchSuccess => EveryExtractionCompleted

\* the handler waits at the join and every extraction has completed
JoinDue == pc = "awaitAll" /\ EveryExtractionCompleted

\* C18: in search mode the success response is sent only after every
\* extraction launched for the request has completed, never while one is in
\* flight, and once all have completed the response is eventually sent.
C18_JoinBeforeRespond == []NoneInFlightAtSuccess /\ (JoinDue ~> SearchSuccess)

\* a success response to a request whose two extractions were both in flight
\* and have both completed
C18_Witness ==
  /\ SearchSuccess /\ Len(tasks) = 2
  /\ FetchedFor(1) /\ FetchedFor(2)
  /\ EveryExtractionCompleted

\* candidate i is one the handler extracts: among the first
\* resultsToProcessLimit, with a URL, which search.js does not class as
\* access-restricted
Eligible(i) ==
  /\ i <= resultsToProcessLimit /\ i <= Len(ProviderList)
  /\ CandidateLink(ProviderList[i]) # NoLink
  /\ isString(CandidateLink(ProviderList[i]))
  /\ variant = VSearch => ~Restricted(CandidateLink(ProviderList[i]))

\* from the fan-out on, the fetch of every eligible candidate has been issued
AllIssuedAtFanOut ==
  FannedOut => \A i \in 1..Len(ProviderList) : Eligible(i) => FetchedFor(i)

\* a step of a search request that issues fetches issues them while no
\* extraction of the request has got anywhere: all are left in flight
IssuedTogether ==
  (providerLog # <<>> /\ fetchLog' # fetchLog) =>
    /\ fetchLog = <<>> /\ tasks = <<>>
    /\ \A j \in 1..Len(fetchLog') : tasks'[fetchLog'[j].task].st = "awaitFetch"

\* C19: the fetch of every eligible candidate is issued before the handler
\* waits for any extraction: all are issued in the one step of the fan-out,
\* none after an extraction has completed.
C19_FetchesIssuedTogether == []AllIssuedAtFanOut /\ [][IssuedTogether]_vars

\* the handler waits at the join with both extractions in flight
C19_Witness ==
  /\ pc = "awaitAll" /\ Len(tasks) = 2
  /\ Eligible(1) /\ Eligible(2)
  /\ tasks[1].st = "awaitFetch" /\ tasks[2].st = "awaitFetch"
  /\ settled = <<>>

\* the number of fetches issued for extraction i
FetchCount(i) == Cardinality({j \in 1..Len(fetchLog) : fetchLog[j].task = i})

\* extraction i got its outcome from the network or from the page
Attempted(i) ==
  /\ tasks[i].extraction # Null
  /\ tasks[i].url # NoLink /\ isString(tasks[i].url) /\ AbsoluteHttp(tasks[i].url)

\* no extraction has been fetched twice, and one that was attempted has been
\* fetched once
OneFetchEach ==
  \A i \in 1..Len(tasks) :
    /\ FetchCount(i) <= 1
    /\ Attempted(i) => FetchCount(i) = 1

\* once the extractions are launched no fetch is issued, and an outcome,
\* whichever it is, stays as it is
NoSecondAttempt ==
  tasks # <<>> =>
    /\ fetchLog' = fetchLog
    /\ \A i \in 1..Len(tasks) :
         tasks[i].extraction # Null =>
           tasks'[i].extraction = tasks[i].extraction

\* C20: each extraction issues exactly one fetch and within one request at
\* most one fetch is issued per processed candidate, whatever the outcome:
\* FetchFailed, ParseEmpty and TransportError are final.
C20_NoRetries == []OneFetchEach /\ [][NoSecondAttempt]_vars

\* a request is answered after two failed extractions, a FetchFailed and a
\* TransportError, with one fetch each
C20_Witness ==
  /\ SearchSuccess /\ Len(tasks) = 2
  /\ Attempted(1) /\ Attempted(2)
  /\ tasks[1].error = Null /\ tasks[1].page = Null
  /\ tasks[2].error # Null
  /\ FetchCount(1) = 1 /\ FetchCount(2) = 1

\* extraction i read an article whose text is empty or blanks only
BlankArticle(i) ==
  /\ tasks[i].page # Null
  /\ tasks[i].page[1].dom = "ok"
  /\ tasks[i].page[1].readability = "article"
  /\ tasks[i].page[1].textContent \in PaddedTexts[0]

\* C21: a Success outcome carries non-empty content: an article text that is
\* empty after trimming (empty or whitespace only) gives ParseEmpty with null
\* content, not Success with an empty string.
C21_SuccessHasContent ==
  \A i \in 1..Len(tasks) :
    tasks[i].extraction # Null =>
      /\ IsSuccessStatus(tasks[i].extraction[1].status) =>
           /\ tasks[i].extraction[1].content # Null
           /\ length(tasks[i].extraction[1].content[1]) > 0
      /\ BlankArticle(i) =>
           /\ tasks[i].extraction[1].status =
                "Readable content not found or page structure not suitable for extraction."
           /\ tasks[i].extraction[1].content = Null

\* the callback of candidate i started from a record with the placeholder
StartedWithPlaceholder(i) ==
  /\ HasStatus(tasks[i].item)
  /\ tasks[i].item.extracted_content_status = "Processing not attempted yet."

\* the status of the i-th result is the outcome's or the no-link status
FinalStatusAt(i) ==
  /\ HasStatus(ResponseResults[i])
  /\ IF tasks[i].extraction # Null
       THEN ResponseResults[i].extracted_content_status
              = tasks[i].extraction[1].status
       ELSE ResponseResults[i].extracted_content_status \in NoLinkStatuses

\* C22: no record of any response carries the placeholder status
\* "Processing not attempted yet.": every processed record has been given the
\* status of an extraction outcome or the no-link status before the join.
C22_NoPlaceholderInResponse ==
  (res # Null /\ pc = "done") =>
    /\ \A i \in 1..Len(ResponseResults) :
         HasStatus(ResponseResults[i]) =>
           ResponseResults[i].extracted_content_status
             # "Processing not attempted yet."
    /\ (SearchSuccess /\ variant \in {VPart000, VPart002}) =>
         \A i \in 1..Len(tasks) : StartedWithPlaceholder(i) /\ FinalStatusAt(i)

\* part_002 answered a list whose first candidate has no link and whose
\* second was extracted, both records having started with the placeholder
C22_Witness ==
  /\ SearchSuccess /\ variant = VPart002 /\ Len(tasks) = 2
  /\ StartedWithPlaceholder(1) /\ StartedWithPlaceholder(2)
  /\ CandidateLink(ProviderList[1]) = NoLink /\ tasks[1].extraction = Null
  /\ tasks[2].extraction # Null
  /\ FinalStatusAt(1) /\ FinalStatusAt(2)

====
